---- MODULE Spec2Model ----
\* A model of trim_tree (src/main.py): the three pruning stages applied in place
\* to a category graph.  The graph is a networkx DiGraph (CategoryTree): a node
\* set, an edge set, the adjacency insertion order that fixes the order in
\* which a traversal sees a node's successors, and a page_count per node.
EXTENDS Integers, Sequences, FiniteSets, TLC

VARIABLES
    nodes,            \* src_tree: the ids of the nodes of the graph
    edges,            \* src_tree: the set of <<parent, child>> pairs
    adj,              \* src_tree: for each id, its successors in insertion order
    page_count,       \* src_tree.nodes[x]["page_count"]
    root_id,          \* trim_tree argument
    excluded,         \* excluded_categories, each name already resolved (or NotFound)
    depth_limit,      \* trim_tree argument
    page_percentile,  \* trim_tree argument
    pc,               \* position in trim_tree
    to_remove,        \* what less_than_page_count_percentile returned, not yet processed
    before            \* the graph when the current stage started, and what it selected

vars == <<nodes, edges, adj, page_count, root_id, excluded, depth_limit,
          page_percentile, pc, to_remove, before>>

-----------------------------------------------------------------------------
\* Bounds of the model.

MaxNode == 3
MaxEdges == 3
MaxDepth == 2
MaxNames == 2

\* The larger graphs on which the depth-first traversal is compared with the
\* hop distance.
DeepNode == 5
DeepEdges == 5
DeepDegree == 2
DeepDepth == 3

\* The defaults of the command line.
DefaultDepthLimit == 100
DefaultPagePercentile == 75

Ids == 1..MaxNode
DeepIds == 1..DeepNode
\* An id that names no node of the graph.
AbsentId(ids) == Cardinality(ids) + 1
\* id_for_category_str_by_lang raised CategoryNotFound for the name.
NotFound == 0
PageCounts == {0, 1}
Percentiles == {0, 50, 75, 100}

-----------------------------------------------------------------------------
\* The graph container.

Range(s) == {s[i] : i \in 1..Len(s)}

successors(E, n) == {e[2] : e \in {x \in E : x[1] = n}}

predecessors(E, n) == {e[1] : e \in {x \in E : x[2] = n}}

\* The successors of n in the order the adjacency of n lists them.
neighbors(E, A, n) == SelectSeq(A[n], LAMBDA v : <<n, v>> \in E)

\* remove_nodes_from: each id and the edges at it go; an id that is no node is
\* passed over silently.
remove_nodes_from(E, S) == {e \in E : e[1] \notin S /\ e[2] \notin S}

\* remove_node_reconstruct: every predecessor p is joined to every successor s
\* (but for p = s = n), then n and its edges go.
remove_node_reconstruct(E, n) ==
    LET joined == {<<p, s>> : p \in predecessors(E, n), s \in successors(E, n)}
                    \ {<<n, n>>}
    IN  remove_nodes_from(E \cup joined, {n})

-----------------------------------------------------------------------------
\* nx.dfs_tree(G, source, depth_limit): the nodes of the tree of dfs_edges.
\* stack holds <<node, successors not yet looked at>>; the depth of the node
\* on top is the height of the stack, and a child is pushed (so that its own
\* successors are looked at) only while that depth is below the limit.  A
\* child is marked visited whether it is pushed or not.

RECURSIVE dfs_edges(_, _, _, _, _)
dfs_edges(E, A, limit, stack, visited) ==
    IF stack = <<>> THEN visited
    ELSE LET top == stack[Len(stack)]
             children == top[2]
         IN  IF children = <<>>
             THEN dfs_edges(E, A, limit, SubSeq(stack, 1, Len(stack) - 1), visited)
             ELSE LET child == Head(children)
                      rest == [stack EXCEPT ![Len(stack)] = <<top[1], Tail(children)>>]
                  IN  IF child \in visited
                      THEN dfs_edges(E, A, limit, rest, visited)
                      ELSE IF Len(stack) < limit
                           THEN dfs_edges(E, A, limit,
                                          Append(rest, <<child, neighbors(E, A, child)>>),
                                          visited \cup {child})
                           ELSE dfs_edges(E, A, limit, rest, visited \cup {child})

\* The traversal were a source that is no node to reach nothing, silently.
dfs_tree_silent(N, E, A, source, limit) ==
    IF source \notin N
    THEN [raised |-> FALSE, nodes |-> {}]
    ELSE [raised |-> FALSE,
          nodes |-> dfs_edges(E, A, limit, <<<<source, neighbors(E, A, source)>>>>,
                              {source})]

\* raised: the source is no node of G, and looking up its successors fails.
dfs_tree(N, E, A, source, limit) ==
    IF source \notin N
    THEN [raised |-> TRUE, nodes |-> {source}]
    ELSE [raised |-> FALSE,
          nodes |-> dfs_edges(E, A, limit, <<<<source, neighbors(E, A, source)>>>>,
                              {source})]

-----------------------------------------------------------------------------
\* less_than_page_count_percentile(src_tree, percentile): the nodes whose
\* page_count is below the percentile of the page counts of all nodes, by
\* linear interpolation between the closest ranks.  Everything is scaled by
\* 100 to stay in the integers.

\* The k-th smallest page count, k counted from 0.
ranked(N, count, k) ==
    CHOOSE c \in {count[n] : n \in N} :
        /\ Cardinality({n \in N : count[n] < c}) <= k
        /\ k < Cardinality({n \in N : count[n] <= c})

percentile100(N, count, p) ==
    LET pos == p * (Cardinality(N) - 1)
        lo == pos \div 100
        frac == pos % 100
    IN  IF frac = 0
        THEN 100 * ranked(N, count, lo)
        ELSE 100 * ranked(N, count, lo)
               + frac * (ranked(N, count, lo + 1) - ranked(N, count, lo))

\* The selection with "at most" in place of "less than".
at_most_page_count_percentile(N, count, p) ==
    {n \in N : 100 * count[n] <= percentile100(N, count, p)}

less_than_page_count_percentile(N, count, p) ==
    {n \in N : 100 * count[n] < percentile100(N, count, p)}

-----------------------------------------------------------------------------
\* trim_tree, stage by stage.

\* The removal set without the guard that keeps the root out of it.
RECURSIVE total_excluded_unguarded(_, _, _, _, _)
total_excluded_unguarded(N, E, root, names, acc) ==
    IF names = <<>> THEN [raised |-> FALSE, ids |-> acc]
    ELSE LET excluded_id == Head(names)
         IN  IF excluded_id = NotFound
             THEN total_excluded_unguarded(N, E, root, Tail(names), acc)
             ELSE IF excluded_id \notin N
                  THEN [raised |-> TRUE, ids |-> acc]
                  ELSE total_excluded_unguarded(N, E, root, Tail(names),
                           acc \cup successors(E, excluded_id) \cup {excluded_id})

\* The removal set were successors() to answer with nothing for an id that is
\* no node.
RECURSIVE total_excluded_lenient(_, _, _, _, _)
total_excluded_lenient(N, E, root, names, acc) ==
    IF names = <<>> THEN [raised |-> FALSE, ids |-> acc]
    ELSE LET excluded_id == Head(names)
         IN  IF excluded_id = NotFound
             THEN total_excluded_lenient(N, E, root, Tail(names), acc)
             ELSE total_excluded_lenient(N, E, root, Tail(names),
                      acc \cup (successors(E, excluded_id) \ {root})
                          \cup {excluded_id})

\* Lines 85-95: the removal set, or the failure of successors() on a resolved
\* id that is no node of the graph.
RECURSIVE total_excluded(_, _, _, _, _)
total_excluded(N, E, root, names, acc) ==
    IF names = <<>> THEN [raised |-> FALSE, ids |-> acc]
    ELSE LET excluded_id == Head(names)
         IN  IF excluded_id = NotFound
             THEN total_excluded(N, E, root, Tail(names), acc)
             ELSE IF excluded_id \notin N
                  THEN [raised |-> TRUE, ids |-> acc]
                  ELSE total_excluded(N, E, root, Tail(names),
                           acc \cup (successors(E, excluded_id) \ {root})
                               \cup {excluded_id})

\* Lines 85-97 on the graph <<N, E>>: whether it raised, and the graph it leaves.
exclusion_stage(N, E, root, names) ==
    LET t == total_excluded(N, E, root, names, {})
    IN  IF t.raised
        THEN [raised |-> TRUE, ids |-> t.ids, nodes |-> N, edges |-> E]
        ELSE [raised |-> FALSE, ids |-> t.ids, nodes |-> N \ t.ids,
              edges |-> remove_nodes_from(E, t.ids)]

ExclusionStage ==
    /\ pc = "exclusion"
    /\ LET r == exclusion_stage(nodes, edges, root_id, excluded)
       IN  /\ before' = [nodes |-> nodes, edges |-> edges, selected |-> r.ids]
           /\ pc' = IF r.raised THEN "raised" ELSE "reachability"
           /\ nodes' = r.nodes
           /\ edges' = r.edges
    /\ UNCHANGED <<adj, page_count, root_id, excluded, depth_limit,
                   page_percentile, to_remove>>

ReachabilityStage ==
    /\ pc = "reachability"
    /\ LET reachable == dfs_tree(nodes, edges, adj, root_id, depth_limit)
       IN  /\ before' = [nodes |-> nodes, edges |-> edges,
                         selected |-> reachable.nodes]
           /\ IF reachable.raised
              THEN /\ pc' = "raised"
                   /\ UNCHANGED <<nodes, edges>>
              ELSE /\ pc' = "percentile"
                   /\ nodes' = nodes \cap reachable.nodes
                   /\ edges' = remove_nodes_from(edges, nodes \ reachable.nodes)
    /\ UNCHANGED <<adj, page_count, root_id, excluded, depth_limit,
                   page_percentile, to_remove>>

PercentileStage ==
    /\ pc = "percentile"
    /\ to_remove' = less_than_page_count_percentile(nodes, page_count,
                                                    page_percentile)
    /\ before' = [nodes |-> nodes, edges |-> edges, selected |-> to_remove']
    /\ pc' = IF to_remove' = {} THEN "done" ELSE "splice"
    /\ UNCHANGED <<nodes, edges, adj, page_count, root_id, excluded,
                   depth_limit, page_percentile>>

\* The loop without the guard of lines 105-106.
SpliceStepNoGuard ==
    /\ pc = "splice"
    /\ \E n \in to_remove :
          /\ to_remove' = to_remove \ {n}
          /\ nodes' = nodes \ {n}
          /\ edges' = remove_node_reconstruct(edges, n)
    /\ pc' = IF to_remove' = {} THEN "done" ELSE "splice"
    /\ UNCHANGED <<adj, page_count, root_id, excluded, depth_limit,
                   page_percentile, before>>

\* The loop joining the predecessors and successors a node had when the loop
\* started.
SpliceStepSnapshot ==
    /\ pc = "splice"
    /\ \E n \in to_remove :
          /\ to_remove' = to_remove \ {n}
          /\ IF n = root_id
             THEN UNCHANGED <<nodes, edges>>
             ELSE /\ nodes' = nodes \ {n}
                  /\ edges' = remove_nodes_from(
                        edges \cup {e \in remove_node_reconstruct(before.edges, n) :
                                      e[1] \in nodes /\ e[2] \in nodes},
                        {n})
    /\ pc' = IF to_remove' = {} THEN "done" ELSE "splice"
    /\ UNCHANGED <<adj, page_count, root_id, excluded, depth_limit,
                   page_percentile, before>>

\* The loop with remove_node in place of remove_node_reconstruct.
SpliceStepPlain ==
    /\ pc = "splice"
    /\ \E n \in to_remove :
          /\ to_remove' = to_remove \ {n}
          /\ IF n = root_id
             THEN UNCHANGED <<nodes, edges>>
             ELSE /\ nodes' = nodes \ {n}
                  /\ edges' = remove_nodes_from(edges, {n})
    /\ pc' = IF to_remove' = {} THEN "done" ELSE "splice"
    /\ UNCHANGED <<adj, page_count, root_id, excluded, depth_limit,
                   page_percentile, before>>

\* One turn of the loop of lines 104-107, on whichever node comes next.
SpliceStep ==
    /\ pc = "splice"
    /\ \E n \in to_remove :
          /\ to_remove' = to_remove \ {n}
          /\ IF n = root_id
             THEN UNCHANGED <<nodes, edges>>
             ELSE /\ nodes' = nodes \ {n}
                  /\ edges' = remove_node_reconstruct(edges, n)
    /\ pc' = IF to_remove' = {} THEN "done" ELSE "splice"
    /\ UNCHANGED <<adj, page_count, root_id, excluded, depth_limit,
                   page_percentile, before>>

-----------------------------------------------------------------------------
\* The graphs a run starts from.

\* The lists of at most len distinct ids: what the adjacency of a node can be.
RECURSIVE DistinctSeqs(_, _)
DistinctSeqs(ids, len) ==
    IF len = 0 THEN {<<>>}
    ELSE LET shorter == DistinctSeqs(ids, len - 1)
         IN  shorter \cup UNION {{Append(s, v) : v \in ids \ Range(s)} : s \in shorter}

RECURSIVE EdgeCount(_, _)
EdgeCount(A, k) == IF k = 0 THEN 0 ELSE Len(A[k]) + EdgeCount(A, k - 1)

\* The adjacencies over the ids 1..n with at most degree successors per node
\* and at most budget edges in all.
AdjLists(n, degree, budget) ==
    {A \in [1..n -> DistinctSeqs(1..n, degree)] : EdgeCount(A, n) <= budget}

EdgesOf(A) == UNION {{<<u, v>> : v \in Range(A[u])} : u \in DOMAIN A}

\* Each name resolves to a node, to an id that is no node, or to nothing.
NameSeqs(ids) ==
    UNION {[1..k -> ids \cup {AbsentId(ids), NotFound}] : k \in 0..MaxNames}

NoStage == [nodes |-> {}, edges |-> {}, selected |-> {}]

\* trim_tree is called on a loaded graph with exclusion names.
InitExclusion ==
    /\ adj \in AdjLists(MaxNode, MaxEdges, MaxEdges)
    /\ nodes = Ids
    /\ edges = EdgesOf(adj)
    /\ page_count = [n \in Ids |-> 1]
    /\ root_id = 1
    /\ excluded \in NameSeqs(Ids)
    /\ depth_limit = DefaultDepthLimit
    /\ page_percentile = DefaultPagePercentile
    /\ pc = "exclusion"
    /\ to_remove = {}
    /\ before = NoStage

SpecExclusion == InitExclusion /\ [][ExclusionStage]_vars

\* The graph as the exclusion stage may leave it: any graph, the root in it or not.
InitTrim ==
    /\ adj \in AdjLists(MaxNode, MaxEdges, MaxEdges)
    /\ nodes = Ids
    /\ edges = EdgesOf(adj)
    /\ page_count \in [Ids -> PageCounts]
    /\ root_id \in {1, AbsentId(Ids)}
    /\ excluded = <<>>
    /\ depth_limit \in 0..MaxDepth
    /\ page_percentile \in Percentiles
    /\ pc = "reachability"
    /\ to_remove = {}
    /\ before = NoStage

NextTrim == ReachabilityStage \/ PercentileStage \/ SpliceStep

SpecTrim == InitTrim /\ [][NextTrim]_vars

\* Larger graphs, for the reachability stage alone.
InitDepth ==
    /\ adj \in AdjLists(DeepNode, DeepDegree, DeepEdges)
    /\ nodes = DeepIds
    /\ edges = EdgesOf(adj)
    /\ page_count = [n \in DeepIds |-> 1]
    /\ root_id = 1
    /\ excluded = <<>>
    /\ depth_limit \in 0..DeepDepth
    /\ page_percentile = DefaultPagePercentile
    /\ pc = "reachability"
    /\ to_remove = {}
    /\ before = NoStage

SpecDepth == InitDepth /\ [][ReachabilityStage]_vars

\* The scenario graph A -> B, B -> C, B -> D with A = 1 (the root), B = 2,
\* C = 3, D = 4, when the percentile stage starts.
ScenarioNodes == {1, 2, 3, 4}
ScenarioEdges == {<<1, 2>>, <<2, 3>>, <<2, 4>>}
ScenarioCounts == {1, 2, 100}

InitScenario ==
    /\ adj = <<<<2>>, <<3, 4>>, <<>>, <<>>>>
    /\ nodes = ScenarioNodes
    /\ edges = ScenarioEdges
    /\ page_count \in [ScenarioNodes -> ScenarioCounts]
    /\ root_id = 1
    /\ excluded = <<>>
    /\ depth_limit = DefaultDepthLimit
    /\ page_percentile \in Percentiles
    /\ pc = "percentile"
    /\ to_remove = {}
    /\ before = NoStage

NextScenario == PercentileStage \/ SpliceStep

SpecScenario == InitScenario /\ [][NextScenario]_vars

-----------------------------------------------------------------------------
\* What the claims speak of.

\* The nodes with a path of at most d edges from root.
RECURSIVE WithinHops(_, _, _)
WithinHops(E, root, d) ==
    IF d = 0 THEN {root}
    ELSE LET near == WithinHops(E, root, d - 1)
         IN  near \cup UNION {successors(E, n) : n \in near}

ReachableFrom(E, N, root) == WithinHops(E, root, Cardinality(N))

\* The nodes a walk from the successors of p comes to when it passes through
\* nodes of R only.
RECURSIVE Through(_, _, _, _)
Through(E, R, seen, k) ==
    IF k = 0 THEN seen
    ELSE Through(E, R, seen \cup UNION {successors(E, n) : n \in seen \cap R}, k - 1)

\* The edges between the nodes outside R once every walk through R is
\* replaced by an edge.
Bridged(E, N, R) ==
    {e \in (N \ R) \X (N \ R) :
        e[2] \in Through(E, R, successors(E, e[1]), Cardinality(R))}

AfterReachability == pc \in {"percentile", "splice", "done"}

\* The nodes the percentile stage is to splice out.
Spliced == before.selected \ {root_id}

\* The names that resolved to an id.
Resolved == {excluded[i] : i \in 1..Len(excluded)} \ {NotFound}

\* C1: the reachability stage completes exactly when the root is a node of
\* the graph it starts on, and from then on, through every turn of the
\* percentile stage, the root is a node of the graph.
RootIsKept ==
    /\ AfterReachability => root_id \in nodes
    /\ pc = "percentile" => root_id \in before.nodes

\* C1: the run is over, the root was below the percentile and so were others.
RootIsKeptWitness ==
    /\ pc = "done"
    /\ root_id \in before.selected
    /\ Spliced # {}
    /\ root_id \in nodes

\* C2 as stated: after the reachability stage every node is within
\* depth_limit hops of the root in the graph the stage started on.
KeptWithinDepth ==
    pc = "percentile" =>
        nodes \subseteq WithinHops(before.edges, root_id, depth_limit)

\* C3 as stated: after the reachability stage every node within depth_limit
\* hops of the root is still there.
NearNodesKept ==
    pc = "percentile" =>
        (before.nodes \cap WithinHops(before.edges, root_id, depth_limit))
            \subseteq nodes

\* C4 as stated: on the graph the reachability stage starts on, a larger
\* depth limit keeps every node a smaller one keeps.
DepthMonotone ==
    pc = "reachability" =>
        \A d1, d2 \in 0..DeepDepth :
            d1 <= d2 =>
                (nodes \cap dfs_tree(nodes, edges, adj, root_id, d1).nodes)
                    \subseteq
                (nodes \cap dfs_tree(nodes, edges, adj, root_id, d2).nodes)

ScenarioPageCount == [n \in ScenarioNodes |-> IF n = 1 THEN 100 ELSE 1]
RaisedPageCount == [n \in ScenarioNodes |->
                        IF n = 1 THEN 100 ELSE IF n = 2 THEN 1 ELSE 2]

\* C5 as stated: on the scenario with percentile 50, B alone is spliced out
\* and A -> C, A -> D are the edges left.
ScenarioSplicesB ==
    (pc = "done" /\ page_count = ScenarioPageCount /\ page_percentile = 50) =>
        /\ before.selected = {2}
        /\ nodes = {1, 3, 4}
        /\ edges = {<<1, 3>>, <<1, 4>>}

\* C5 amended: on the scenario with percentile 50 the threshold is 1, no page
\* count is below it, and the graph is left as it was; B alone is spliced
\* out, leaving A -> C and A -> D, when C and D have page count 2.
ScenarioKeepsB ==
    /\ (pc = "done" /\ page_count = ScenarioPageCount /\ page_percentile = 50) =>
          /\ before.selected = {}
          /\ nodes = ScenarioNodes
          /\ edges = ScenarioEdges
    /\ (pc = "done" /\ page_count = RaisedPageCount /\ page_percentile = 50) =>
          /\ before.selected = {2}
          /\ nodes = {1, 3, 4}
          /\ edges = {<<1, 3>>, <<1, 4>>}

\* C5: the stage has run on the scenario.
ScenarioWitness ==
    /\ pc = "done"
    /\ page_count = ScenarioPageCount
    /\ page_percentile = 50
    /\ before.edges = ScenarioEdges

\* Some name resolved to a node that had the root among its successors.
RootListedAsChild ==
    \E x \in Resolved \cap before.nodes : root_id \in successors(before.edges, x)

\* C6 as stated: when a name resolves to a node with the root among its
\* successors, the removal set is without the root and the root stays.
RootOutOfRemovalSet ==
    (pc # "exclusion" /\ RootListedAsChild) =>
        (root_id \notin before.selected /\ root_id \in nodes)

\* C6 amended: the same, provided no name resolves to the root itself.
RootOutOfRemovalSetUnlessNamed ==
    (pc # "exclusion" /\ RootListedAsChild /\ root_id \notin Resolved) =>
        (root_id \notin before.selected /\ root_id \in nodes)

\* C6: the stage removed a node other than the root that listed the root as
\* a child.
RootOutOfRemovalSetWitness ==
    /\ pc = "reachability"
    /\ root_id \notin Resolved
    /\ \E x \in before.selected :
          x # root_id /\ root_id \in successors(before.edges, x)

\* A second run of the exclusion stage on the graph the first left.
SecondRun == exclusion_stage(nodes, edges, root_id, excluded)

\* C7 as stated: the second run completes and leaves the graph as it is.
SecondRunCompletes ==
    pc = "reachability" =>
        /\ ~SecondRun.raised
        /\ SecondRun.nodes = nodes
        /\ SecondRun.edges = edges

\* C7 amended: the second run leaves the graph as it is, and it completes
\* only when no name resolved to an id; otherwise it raises, on the first
\* resolved name, before anything is removed.
SecondRunRemovesNothing ==
    pc # "exclusion" =>
        /\ SecondRun.nodes = nodes
        /\ SecondRun.edges = edges
        /\ SecondRun.raised <=> Resolved # {}

\* C7: the first run completed and removed nodes.
SecondRunWitness ==
    /\ pc = "reachability"
    /\ before.selected # {}
    /\ nodes # before.nodes
    /\ edges # before.edges

\* C8 as stated: with the root absent the reachability stage raises nothing
\* and leaves the graph empty.
AbsentRootEmptiesGraph ==
    (pc # "reachability" /\ root_id \notin before.nodes) =>
        (pc # "raised" /\ nodes = {})

\* C8 amended: with the root absent the reachability stage raises and
\* removes nothing; it raises in no other case.
AbsentRootRaises ==
    /\ (pc # "reachability" /\ root_id \notin nodes) =>
          (pc = "raised" /\ nodes = before.nodes /\ edges = before.edges)
    /\ pc = "raised" => root_id \notin before.nodes

\* C8: the stage ran on a graph with edges and without the root.
AbsentRootWitness ==
    /\ pc = "raised"
    /\ root_id \notin before.nodes
    /\ before.edges # {}

\* C9: in whatever order the selected nodes were spliced out, the nodes left
\* are the others and the edges left are the walks through the nodes gone so
\* far, each made an edge.
SpliceOrderImmaterial ==
    /\ pc \in {"splice", "done"} =>
          edges = Bridged(before.edges, before.nodes, before.nodes \ nodes)
    /\ pc = "done" =>
          /\ nodes = before.nodes \ Spliced
          /\ edges = Bridged(before.edges, before.nodes, Spliced)

\* C9: two nodes joined by an edge were both spliced out, and an edge was made.
SpliceOrderWitness ==
    /\ pc = "done"
    /\ \E a, b \in Spliced : a # b /\ <<a, b>> \in before.edges
    /\ ~(edges \subseteq before.edges)

\* C10: once the reachability stage has completed, in every state up to the
\* end of the run, every node is reachable from the root in the graph as it is.
AllReachableFromRoot ==
    AfterReachability => nodes \subseteq ReachableFrom(edges, nodes, root_id)

\* C10: the run is over and a node is left that was reachable only through
\* nodes that were spliced out.
AllReachableWitness ==
    /\ pc = "done"
    /\ Spliced # {}
    /\ \E n \in nodes :
          n \notin ReachableFrom(remove_nodes_from(before.edges, Spliced),
                                 nodes, root_id)

====
